---- MODULE Spec2Model ----
(***************************************************************************)
(* A model of src/app.py, the stock price dashboard: the row validator     *)
(* check_rows, the daily OHLC resampling prepare_candlestick_data, the     *)
(* market index fetch fetch_index_data and the page script that loads the  *)
(* sheets of an uploaded workbook and renders metrics and a chart.         *)
(*                                                                         *)
(* A spreadsheet cell is a record [kind, v, t]:                            *)
(*   "null"     an empty cell (NaN / None / NaT)                           *)
(*   "str"      text that spells neither a number nor a date               *)
(*   "numstr"   text that spells the number v                              *)
(*   "num"      the number v                                               *)
(*   "datestr"  text that spells the timestamp day v, time of day t        *)
(*   "ts"       the timestamp day v, time of day t                         *)
(* A table (DataFrame) is [columns, rows], a row is [index, cells] with    *)
(* index the row's label and cells a record over the table's columns.      *)
(***************************************************************************)
EXTENDS Integers, Sequences, FiniteSets, TLC

VARIABLES
    uploaded_file,        \* the uploaded workbook, NoFile or Corrupt
    yf,                   \* what yf.download does for each ticker in this run
    pc,                   \* position of the page script
    sheet_i,              \* position of the sheet loop
    dfs,                  \* sheet name -> cleaned table, in insertion order
    validation_messages,  \* sheet name -> messages, in insertion order
    shown,                \* the messages the page has displayed
    selected_stock,       \* sidebar: selected sheet name
    chart_type,           \* sidebar: chart type
    show_indices,         \* sidebar: market indices toggle
    index_data,           \* result of fetch_index_data, or None
    metrics,              \* the three summary metrics
    fig,                  \* the chart handed to st.plotly_chart
    h_df,                 \* function harness: the input table
    h_out,                \* function harness: check_rows(h_df)
    h_again,              \* function harness: check_rows on the cleaned table
    h_ohlc                \* function harness: prepare_candlestick_data

appvars == <<uploaded_file, yf, pc, sheet_i, dfs, validation_messages, shown,
             selected_stock, chart_type, show_indices, index_data, metrics, fig>>
hvars == <<h_df, h_out, h_again, h_ohlc>>
vars == <<appvars, hvars>>

(***************************************************************************)
(* Bounds of the model.                                                    *)
(***************************************************************************)
MaxRows == 2      \* rows of a sheet handed to check_rows
MaxObs == 3       \* rows of a series handed to prepare_candlestick_data
MaxDay == 3       \* calendar days 1..MaxDay
MaxSheets == 2    \* sheets of an uploaded workbook

Days == 1..MaxDay
Ticks == {0, 1}   \* times of day

(***************************************************************************)
(* Python values.                                                          *)
(***************************************************************************)
None == [none |-> TRUE]
Unset == [unset |-> TRUE]

Null == [kind |-> "null", v |-> 0, t |-> 0]
Str == [kind |-> "str", v |-> 0, t |-> 0]
NumStr(n) == [kind |-> "numstr", v |-> n, t |-> 0]
Num(n) == [kind |-> "num", v |-> n, t |-> 0]
DateStr(d, t) == [kind |-> "datestr", v |-> d, t |-> t]
Ts(d, t) == [kind |-> "ts", v |-> d, t |-> t]

\* Series.isnull / pd.isna of one cell
isnull(c) == c.kind = "null"

\* pd.to_datetime of a scalar: NaT for a null, the timestamp a date text
\* spells, an exception for any other text.
to_datetime(c) ==
    CASE c.kind = "null" -> [raised |-> FALSE, value |-> Null]
      [] c.kind = "ts" -> [raised |-> FALSE, value |-> c]
      [] c.kind = "datestr" -> [raised |-> FALSE, value |-> Ts(c.v, c.t)]
      [] c.kind \in {"str", "numstr"} -> [raised |-> TRUE, value |-> Null]

\* pd.to_numeric(scalar, errors='coerce'): a number is returned as it is, a
\* text that spells a number is parsed, anything else becomes NaN; with
\* errors='coerce' no cell of a spreadsheet makes it raise.
to_numeric_coerce(c) ==
    CASE c.kind = "num" -> [raised |-> FALSE, value |-> c]
      [] c.kind = "numstr" -> [raised |-> FALSE, value |-> Num(c.v)]
      [] OTHER -> [raised |-> FALSE, value |-> Null]

\* pd.to_numeric of a column (errors='raise'), cell by cell
to_numeric(c) ==
    CASE c.kind = "num" -> c
      [] c.kind = "numstr" -> Num(c.v)
      [] c.kind = "null" -> Null

(***************************************************************************)
(* check_rows                                                              *)
(***************************************************************************)
\* the mutant of check_row: the three checks short-circuit
check_row_shortcircuit(row) ==
    LET has_null == \E col \in DOMAIN row.cells : isnull(row.cells[col])
        date_val == to_datetime(row.cells.Date)
        price_val == to_numeric_coerce(row.cells.Price)
        row_messages ==
            IF has_null THEN <<"Contains null values">>
            ELSE IF date_val.raised THEN <<"Invalid date format">>
            ELSE IF price_val.raised THEN <<"Price is not numeric">>
            ELSE IF isnull(price_val.value) \/ price_val.value.v <= 0
                 THEN <<"Invalid price value">>
            ELSE <<>>
    IN  [is_valid |-> row_messages = <<>>, row_messages |-> row_messages]

\* the mutant of check_row: a price of 0 is accepted (< in place of <=)
check_row_nonnegative(row) ==
    LET has_null == \E col \in DOMAIN row.cells : isnull(row.cells[col])
        date_val == to_datetime(row.cells.Date)
        price_val == to_numeric_coerce(row.cells.Price)
        m1 == IF has_null THEN <<"Contains null values">> ELSE <<>>
        m2 == IF date_val.raised THEN <<"Invalid date format">> ELSE <<>>
        m3 == IF price_val.raised THEN <<"Price is not numeric">>
              ELSE IF isnull(price_val.value) \/ price_val.value.v < 0
                   THEN <<"Invalid price value">>
              ELSE <<>>
        row_messages == m1 \o m2 \o m3
    IN  [is_valid |-> row_messages = <<>>, row_messages |-> row_messages]

\* The body of the row loop: the three checks of one row, each appending its
\* reason and clearing is_valid.
check_row(row) ==
    LET \* row.isnull().any(): any column of the row
        has_null == \E col \in DOMAIN row.cells : isnull(row.cells[col])
        date_val == to_datetime(row.cells.Date)
        price_val == to_numeric_coerce(row.cells.Price)
        m1 == IF has_null THEN <<"Contains null values">> ELSE <<>>
        m2 == IF date_val.raised THEN <<"Invalid date format">> ELSE <<>>
        m3 == IF price_val.raised THEN <<"Price is not numeric">>
              ELSE IF isnull(price_val.value) \/ price_val.value.v <= 0
                   THEN <<"Invalid price value">>
              ELSE <<>>
        row_messages == m1 \o m2 \o m3
    IN  [is_valid |-> row_messages = <<>>, row_messages |-> row_messages]

\* the rows the loop appends to valid_rows, in row order
valid_rows(df) == SelectSeq(df.rows, LAMBDA row : check_row(row).is_valid)

\* the records the loop appends to invalid_rows, in row order
invalid_rows(df) ==
    LET bad == SelectSeq(df.rows, LAMBDA row : ~check_row(row).is_valid)
    IN  [k \in 1..Len(bad) |->
            [index |-> bad[k].index, messages |-> check_row(bad[k]).row_messages]]

\* pd.DataFrame(valid_rows) with Date and Price coerced to their types
coerce_columns(rows) ==
    [k \in 1..Len(rows) |->
        [index |-> rows[k].index,
         cells |-> [col \in DOMAIN rows[k].cells |->
                      CASE col = "Date" -> to_datetime(rows[k].cells[col]).value
                        [] col = "Price" -> to_numeric(rows[k].cells[col])
                        [] OTHER -> rows[k].cells[col]]]]

Message(text, n, reasons) == [text |-> text, n |-> n, reasons |-> reasons]

\* the mutant of check_rows: the summary line is added also when no row was
\* removed (>= in place of >)
check_rows_summary_always(df) ==
    LET original_rows == Len(df.rows)
        valid == valid_rows(df)
        invalid == invalid_rows(df)
        cleaned_df == [columns |-> df.columns, rows |-> coerce_columns(valid)]
        removed_rows == original_rows - Len(cleaned_df.rows)
        detail == IF invalid # <<>>
                  THEN <<Message("Removed invalid rows:", Len(invalid), <<>>)>>
                       \o [k \in 1..Len(invalid) |->
                             Message("Row", invalid[k].index + 1, invalid[k].messages)]
                  ELSE <<>>
        summary == IF removed_rows >= 0
                   THEN <<Message("Total rows removed", removed_rows, <<>>)>>
                   ELSE <<>>
    IN  IF valid = <<>>
        THEN [cleaned_df |-> None,
              messages |-> <<Message("No valid rows found in the data", 0, <<>>)>>]
        ELSE [cleaned_df |-> cleaned_df, messages |-> detail \o summary]

\* the validator: the cleaned table, or None, and the messages
check_rows(df) ==
    LET original_rows == Len(df.rows)
        valid == valid_rows(df)
        invalid == invalid_rows(df)
        cleaned_df == [columns |-> df.columns, rows |-> coerce_columns(valid)]
        removed_rows == original_rows - Len(cleaned_df.rows)
        detail == IF invalid # <<>>
                  THEN <<Message("Removed invalid rows:", Len(invalid), <<>>)>>
                       \o [k \in 1..Len(invalid) |->
                             Message("Row", invalid[k].index + 1, invalid[k].messages)]
                  ELSE <<>>
        summary == IF removed_rows > 0
                   THEN <<Message("Total rows removed", removed_rows, <<>>)>>
                   ELSE <<>>
    IN  IF valid = <<>>
        THEN [cleaned_df |-> None,
              messages |-> <<Message("No valid rows found in the data", 0, <<>>)>>]
        ELSE [cleaned_df |-> cleaned_df, messages |-> detail \o summary]

(***************************************************************************)
(* prepare_candlestick_data                                                *)
(***************************************************************************)
\* order of two timestamps
Earlier(a, b) == a.v < b.v \/ (a.v = b.v /\ a.t < b.t)

\* the place of row r in the sorted rows s: after every row not later than r
InsertAt(s, r) ==
    LET later == {k \in 1..Len(s) : Earlier(r.cells.Date, s[k].cells.Date)}
        at == IF later = {} THEN Len(s) + 1
              ELSE CHOOSE k \in later : \A j \in later : k <= j
    IN  SubSeq(s, 1, at - 1) \o <<r>> \o SubSeq(s, at, Len(s))

\* resample sorts the rows by the Date index with a stable sort
RECURSIVE sort_by_date(_)
sort_by_date(rows) ==
    IF rows = <<>> THEN <<>>
    ELSE InsertAt(sort_by_date(SubSeq(rows, 1, Len(rows) - 1)), rows[Len(rows)])

SeqMax(s) == CHOOSE x \in {s[k] : k \in 1..Len(s)} : \A k \in 1..Len(s) : s[k] <= x
SeqMin(s) == CHOOSE x \in {s[k] : k \in 1..Len(s)} : \A k \in 1..Len(s) : x <= s[k]

\* the mutant of day_bin: Open and Close are taken in the wrong order
day_bin_swapped(sorted, day) ==
    LET inbin == SelectSeq(sorted, LAMBDA r : r.cells.Date.v = day)
        prices == [k \in 1..Len(inbin) |-> inbin[k].cells.Price.v]
    IN  IF prices = <<>>
        THEN [Date |-> Ts(day, 0), Open |-> Null, High |-> Null, Low |-> Null,
              Close |-> Null]
        ELSE [Date |-> Ts(day, 0), Open |-> Num(prices[Len(prices)]),
              High |-> Num(SeqMax(prices)), Low |-> Num(SeqMin(prices)),
              Close |-> Num(prices[1])]

\* one bin of resample('D').agg(first, max, min, last): the rows whose
\* timestamp falls on the day, NaN everywhere when there is none
day_bin(sorted, day) ==
    LET inbin == SelectSeq(sorted, LAMBDA r : r.cells.Date.v = day)
        prices == [k \in 1..Len(inbin) |-> inbin[k].cells.Price.v]
    IN  IF prices = <<>>
        THEN [Date |-> Ts(day, 0), Open |-> Null, High |-> Null, Low |-> Null,
              Close |-> Null]
        ELSE [Date |-> Ts(day, 0), Open |-> Num(prices[1]),
              High |-> Num(SeqMax(prices)), Low |-> Num(SeqMin(prices)),
              Close |-> Num(prices[Len(prices)])]

\* the frame of the bars, indexed by Date, with Close renamed to Price
ohlc_frame(bars) ==
    [columns |-> {"Open", "High", "Low", "Price"},
     rows |-> [k \in 1..Len(bars) |->
                 [index |-> bars[k].Date,
                  cells |-> [Open |-> bars[k].Open, High |-> bars[k].High,
                             Low |-> bars[k].Low, Price |-> bars[k].Close]]]]

\* the daily OHLC bars of a cleaned table
prepare_candlestick_data(df) ==
    IF df.rows = <<>> THEN ohlc_frame(<<>>)
    ELSE LET sorted == sort_by_date(df.rows)
             first == sorted[1].cells.Date.v
             last == sorted[Len(sorted)].cells.Date.v
             \* one bin per day from the first to the last day of the series
             bars == [k \in 1..(last - first + 1) |-> day_bin(sorted, first + k - 1)]
             \* dropna
             kept == SelectSeq(bars, LAMBDA b : ~(isnull(b.Open) \/ isnull(b.High)
                                                   \/ isnull(b.Low) \/ isnull(b.Close)))
         IN  ohlc_frame(kept)

(***************************************************************************)
(* fetch_index_data                                                        *)
(***************************************************************************)
MARKET_INDICES ==
    << [name |-> "NASDAQ", ticker |-> "^IXIC"],
       [name |-> "DJIA", ticker |-> "^DJI"],
       [name |-> "S&P 500", ticker |-> "^GSPC"],
       [name |-> "Russell 2000", ticker |-> "^RUT"],
       [name |-> "FTSE 100", ticker |-> "^FTSE"],
       [name |-> "Shanghai Composite", ticker |-> "000001.SS"] >>

Tickers == {MARKET_INDICES[k].ticker : k \in 1..Len(MARKET_INDICES)}
\* yf.download returns data, returns an empty frame, or raises
Outcomes == {"data", "empty", "raise"}

\* the mutant of fetch_step: no try/except, the exception leaves the loop
fetch_step_unguarded(acc, index, world, start_date, end_date) ==
    IF acc.raised THEN acc
    ELSE CASE world[index.ticker] = "raise" -> [acc EXCEPT !.raised = TRUE]
           [] world[index.ticker] = "empty" -> acc
           [] world[index.ticker] = "data" ->
                [acc EXCEPT !.index_data = @ \o
                    <<[name |-> index.name,
                       data |-> [columns |-> {"Date", "Price"}, ticker |-> index.ticker,
                                 start |-> start_date, end |-> end_date]]>>]

\* one turn of the loop over MARKET_INDICES, with its try/except
fetch_step(acc, index, world, start_date, end_date) ==
    CASE world[index.ticker] = "raise" ->
            [acc EXCEPT !.warnings = @ \o <<index.name>>]
      [] world[index.ticker] = "empty" -> acc
      [] world[index.ticker] = "data" ->
            [acc EXCEPT !.index_data = @ \o
                <<[name |-> index.name,
                   data |-> [columns |-> {"Date", "Price"}, ticker |-> index.ticker,
                             start |-> start_date, end |-> end_date]]>>]

RECURSIVE fetch_loop(_, _, _, _)
fetch_loop(n, world, start_date, end_date) ==
    IF n = 0 THEN [index_data |-> <<>>, warnings |-> <<>>, raised |-> FALSE]
    ELSE fetch_step(fetch_loop(n - 1, world, start_date, end_date),
                    MARKET_INDICES[n], world, start_date, end_date)

\* index_data, the warnings it displayed, and whether an exception left it
fetch_index_data(world, start_date, end_date) ==
    fetch_loop(Len(MARKET_INDICES), world, start_date, end_date)

(***************************************************************************)
(* The page script                                                         *)
(***************************************************************************)
NoFile == [file |-> "none", sheets |-> <<>>]
Corrupt == [file |-> "corrupt", sheets |-> <<>>]
Workbook(sheets) == [file |-> "xlsx", sheets |-> sheets]

Shown(kind, text, arg) == [kind |-> kind, text |-> text, arg |-> arg]

\* dict helpers: a dict is a sequence of [name, value] in insertion order
Dict(items) == [items |-> items]
Lookup(d, name) == (CHOOSE e \in {d[k] : k \in 1..Len(d)} : e.name = name).value

\* Series.min() / Series.max() of the Date column
DateMin(rows) ==
    CHOOSE d \in {rows[k].cells.Date : k \in 1..Len(rows)} :
        \A k \in 1..Len(rows) : ~Earlier(rows[k].cells.Date, d)
DateMax(rows) ==
    CHOOSE d \in {rows[k].cells.Date : k \in 1..Len(rows)} :
        \A k \in 1..Len(rows) : ~Earlier(d, rows[k].cells.Date)

\* a / b of two numbers: the exact quotient num/den, inf or nan when den = 0
Quotient(a, b) == [num |-> a, den |-> b]

\* the mutant of summary_metrics: the metrics are taken from the OHLC bars
summary_metrics_ohlc(df) ==
    LET bars == prepare_candlestick_data(df).rows
        n == Len(bars)
        current_price == bars[n].cells.Price.v
        price_change == bars[n].cells.Price.v - bars[1].cells.Price.v
        ratio == Quotient(price_change, bars[1].cells.Price.v)
    IN  [current_price |-> current_price, price_change |-> price_change,
         percent_change |-> [num |-> ratio.num * 100, den |-> ratio.den]]

\* the three metrics of the selected table (iloc[-1], iloc[0])
summary_metrics(df) ==
    LET n == Len(df.rows)
        current_price == df.rows[n].cells.Price.v
        price_change == df.rows[n].cells.Price.v - df.rows[1].cells.Price.v
        ratio == Quotient(price_change, df.rows[1].cells.Price.v)
    IN  [current_price |-> current_price, price_change |-> price_change,
         percent_change |-> [num |-> ratio.num * 100, den |-> ratio.den]]

\* the traces of the market indices, added to either chart
index_traces(data) ==
    IF data = None THEN <<>>
    ELSE [k \in 1..Len(data.items) |-> data.items[k].name]

create_line_chart(df, stock, data) ==
    [kind |-> "line", name |-> stock, data |-> df, indices |-> index_traces(data)]

create_candlestick_chart(df, stock, data) ==
    [kind |-> "candlestick", name |-> stock, data |-> prepare_candlestick_data(df),
     indices |-> index_traces(data)]

\* uploaded_file is None: the page asks for a file
NoUpload ==
    /\ pc = "start"
    /\ uploaded_file = NoFile
    /\ shown' = shown \o <<Shown("info", "Please upload an Excel file to begin.", "")>>
    /\ pc' = "done"
    /\ UNCHANGED <<uploaded_file, yf, sheet_i, dfs, validation_messages,
                   selected_stock, chart_type, show_indices, index_data, metrics, fig>>
    /\ UNCHANGED hvars

\* pd.ExcelFile(uploaded_file): a file that cannot be read raises, and the
\* except clause around the whole script reports it
OpenWorkbook ==
    /\ pc = "start"
    /\ uploaded_file # NoFile
    /\ IF uploaded_file = Corrupt
       THEN /\ shown' = shown \o <<Shown("error", "An error occurred", "")>>
            /\ pc' = "done"
            /\ UNCHANGED <<sheet_i, dfs, validation_messages>>
       ELSE /\ sheet_i' = 1
            /\ dfs' = <<>>
            /\ validation_messages' = <<>>
            /\ pc' = "sheets"
            /\ UNCHANGED shown
    /\ UNCHANGED <<uploaded_file, yf, selected_stock, chart_type, show_indices,
                   index_data, metrics, fig>>
    /\ UNCHANGED hvars

\* the mutant of read_sheet: a sheet without valid rows ends the loop
read_sheet_break(sheet, i, d, msgs) ==
    IF "Date" \in sheet.df.columns /\ "Price" \in sheet.df.columns
    THEN LET r == check_rows(sheet.df)
         IN  IF r.cleaned_df # None
             THEN [dfs |-> d \o <<[name |-> sheet.name, value |-> r.cleaned_df]>>,
                   validation_messages |->
                       msgs \o <<[name |-> sheet.name, value |-> r.messages]>>,
                   shown |-> <<>>, sheet_i |-> i + 1]
             ELSE [dfs |-> d, validation_messages |-> msgs, shown |-> <<>>,
                   sheet_i |-> i + MaxSheets + 1]
    ELSE [dfs |-> d, validation_messages |-> msgs, shown |-> <<>>,
          sheet_i |-> i + MaxSheets + 1]

\* one turn of the sheet loop: what it stores, what it displays, where it goes
read_sheet(sheet, i, d, msgs) ==
    IF "Date" \in sheet.df.columns /\ "Price" \in sheet.df.columns
    THEN LET r == check_rows(sheet.df)
         IN  IF r.cleaned_df # None
             THEN [dfs |-> d \o <<[name |-> sheet.name, value |-> r.cleaned_df]>>,
                   validation_messages |->
                       msgs \o <<[name |-> sheet.name, value |-> r.messages]>>,
                   shown |-> <<>>, sheet_i |-> i + 1]
             ELSE \* the st.error of this branch is commented out
                  [dfs |-> d, validation_messages |-> msgs, shown |-> <<>>,
                   sheet_i |-> i + 1]
    ELSE \* the st.warning of this branch is commented out
         [dfs |-> d, validation_messages |-> msgs, shown |-> <<>>,
          sheet_i |-> i + 1]

ReadSheet ==
    /\ pc = "sheets"
    /\ sheet_i <= Len(uploaded_file.sheets)
    /\ LET r == read_sheet(uploaded_file.sheets[sheet_i], sheet_i, dfs,
                           validation_messages)
       IN  /\ dfs' = r.dfs
           /\ validation_messages' = r.validation_messages
           /\ shown' = shown \o r.shown
           /\ sheet_i' = r.sheet_i
    /\ UNCHANGED <<uploaded_file, yf, pc, selected_stock, chart_type, show_indices,
                   index_data, metrics, fig>>
    /\ UNCHANGED hvars

\* the loop is over and dfs is empty: the script displays nothing more
NoSheets ==
    /\ pc = "sheets"
    /\ sheet_i > Len(uploaded_file.sheets)
    /\ dfs = <<>>
    /\ pc' = "done"
    /\ UNCHANGED <<uploaded_file, yf, sheet_i, dfs, validation_messages, shown,
                   selected_stock, chart_type, show_indices, index_data, metrics, fig>>
    /\ UNCHANGED hvars

\* the sidebar: the stock among dfs.keys(), the chart type, the indices toggle
Controls ==
    /\ pc = "sheets"
    /\ sheet_i > Len(uploaded_file.sheets)
    /\ dfs # <<>>
    /\ \E stock \in {dfs[k].name : k \in 1..Len(dfs)},
          chart \in {"Line Chart", "Candlestick Chart"},
          indices \in BOOLEAN :
            /\ selected_stock' = stock
            /\ chart_type' = chart
            /\ show_indices' = indices
    /\ shown' = shown \o <<Shown("header", "Chart Controls", "")>>
    /\ pc' = "fetch"
    /\ UNCHANGED <<uploaded_file, yf, sheet_i, dfs, validation_messages,
                   index_data, metrics, fig>>
    /\ UNCHANGED hvars

\* index_data = fetch_index_data(df['Date'].min(), df['Date'].max()) when the
\* toggle is set; an exception leaving it reaches the script's except clause
FetchIndices ==
    /\ pc = "fetch"
    /\ LET df == Lookup(dfs, selected_stock)
           r == fetch_index_data(yf, DateMin(df.rows), DateMax(df.rows))
       IN  IF show_indices
           THEN IF r.raised
                THEN /\ shown' = shown \o <<Shown("error", "An error occurred", "")>>
                     /\ pc' = "done"
                     /\ UNCHANGED index_data
                ELSE /\ index_data' = Dict(r.index_data)
                     /\ shown' = shown \o
                           [k \in 1..Len(r.warnings) |->
                               Shown("warning", "Could not fetch data for", r.warnings[k])]
                     /\ pc' = "metrics"
           ELSE /\ index_data' = None
                /\ pc' = "metrics"
                /\ UNCHANGED shown
    /\ UNCHANGED <<uploaded_file, yf, sheet_i, dfs, validation_messages,
                   selected_stock, chart_type, show_indices, metrics, fig>>
    /\ UNCHANGED hvars

\* the three st.metric of the selected table; iloc on an empty table raises
Metrics ==
    /\ pc = "metrics"
    /\ LET df == Lookup(dfs, selected_stock)
       IN  IF df.rows = <<>>
           THEN /\ shown' = shown \o <<Shown("error", "An error occurred", "")>>
                /\ pc' = "done"
                /\ UNCHANGED metrics
           ELSE /\ metrics' = summary_metrics(df)
                /\ shown' = shown \o <<Shown("metric", "Current Price", ""),
                                       Shown("metric", "Total Change", ""),
                                       Shown("metric", "Percentage Change", "")>>
                /\ pc' = "chart"
    /\ UNCHANGED <<uploaded_file, yf, sheet_i, dfs, validation_messages,
                   selected_stock, chart_type, show_indices, index_data, fig>>
    /\ UNCHANGED hvars

\* the chart of the selected type, st.plotly_chart and the raw data table
Chart ==
    /\ pc = "chart"
    /\ LET df == Lookup(dfs, selected_stock)
       IN  fig' = IF chart_type = "Line Chart"
                  THEN create_line_chart(df, selected_stock, index_data)
                  ELSE create_candlestick_chart(df, selected_stock, index_data)
    /\ shown' = shown \o <<Shown("plotly_chart", "", selected_stock),
                           Shown("dataframe", "Raw Data", selected_stock)>>
    /\ pc' = "done"
    /\ UNCHANGED <<uploaded_file, yf, sheet_i, dfs, validation_messages,
                   selected_stock, chart_type, show_indices, index_data, metrics>>
    /\ UNCHANGED hvars

Next == NoUpload \/ OpenWorkbook \/ ReadSheet \/ NoSheets \/ Controls
        \/ FetchIndices \/ Metrics \/ Chart

(***************************************************************************)
(* Function harness: check_rows and prepare_candlestick_data applied to    *)
(* an input table drawn by Init.                                           *)
(***************************************************************************)
CheckRows ==
    /\ h_df # Unset
    /\ h_out = Unset
    /\ h_out' = check_rows(h_df)
    /\ UNCHANGED <<h_df, h_again, h_ohlc>>
    /\ UNCHANGED appvars

\* check_rows on the cleaned table it returned
Recheck ==
    /\ h_out # Unset
    /\ h_out.cleaned_df # None
    /\ h_again = Unset
    /\ h_again' = check_rows(h_out.cleaned_df)
    /\ UNCHANGED <<h_df, h_out, h_ohlc>>
    /\ UNCHANGED appvars

\* prepare_candlestick_data on the cleaned table
Candlestick ==
    /\ h_out # Unset
    /\ h_out.cleaned_df # None
    /\ h_ohlc = Unset
    /\ h_ohlc' = prepare_candlestick_data(h_out.cleaned_df)
    /\ UNCHANGED <<h_df, h_out, h_again>>
    /\ UNCHANGED appvars

NextRows == CheckRows \/ Recheck
NextCandle == CheckRows \/ Candlestick

(***************************************************************************)
(* Inputs                                                                  *)
(***************************************************************************)
\* a table read by pd.read_excel: the rows are labelled 0, 1, 2, ...
Table(cols, cellrows) ==
    [columns |-> cols,
     rows |-> [i \in 1..Len(cellrows) |-> [index |-> i - 1, cells |-> cellrows[i]]]]

SeqsUpTo(S, n) == UNION {[1..k -> S] : k \in 0..n}

\* sheets for check_rows: every kind of Date and Price cell, with and without
\* a third column
RowDateCells == {Null, Str, DateStr(1, 0), Ts(2, 1)}
RowPriceCells == {Null, Str, NumStr(2), Num(-1), Num(0), Num(1)}
RowVolumeCells == {Null, Num(5)}
RowCells(cols) ==
    IF "Volume" \in cols
    THEN [Date : RowDateCells, Price : RowPriceCells, Volume : RowVolumeCells]
    ELSE [Date : RowDateCells, Price : RowPriceCells]

\* series for prepare_candlestick_data: timestamps in any order, several a day
CandlePrices == {1, 2, 3}
CandleCells ==
    [Date : {Ts(d, t) : d \in Days, t \in Ticks}, Price : {Num(p) : p \in CandlePrices}]

\* sheets of an uploaded workbook
AppTables ==
    { Table({"Date"}, <<[Date |-> Ts(1, 0)]>>),
      Table({"Price", "Volume"}, <<[Price |-> Num(1), Volume |-> Num(5)]>>),
      Table({"Date", "Price"}, <<>>),
      Table({"Date", "Price"}, <<[Date |-> Ts(1, 0), Price |-> Num(0)]>>),
      Table({"Date", "Price"}, <<[Date |-> Ts(1, 0), Price |-> Num(1)]>>),
      Table({"Date", "Price"}, <<[Date |-> DateStr(1, 0), Price |-> Str],
                                 [Date |-> DateStr(2, 0), Price |-> NumStr(2)]>>),
      Table({"Date", "Price"}, <<[Date |-> Ts(1, 0), Price |-> Num(2)],
                                 [Date |-> Ts(1, 1), Price |-> Num(3)],
                                 [Date |-> Ts(3, 0), Price |-> Num(1)]>>),
      Table({"Date", "Price", "Volume"},
            <<[Date |-> Ts(1, 0), Price |-> Num(1), Volume |-> Num(5)],
              [Date |-> Ts(2, 0), Price |-> Num(3), Volume |-> Null]>>) }

\* sheet names are unique in a workbook
SheetNames == <<"AAPL", "MSFT", "GOOG", "AMZN", "TSLA">>
Workbooks(tables, n) ==
    {Workbook([k \in 1..Len(ts) |-> [name |-> SheetNames[k], df |-> ts[k]]]) :
        ts \in SeqsUpTo(tables, n)}

AllData == [t \in Tickers |-> "data"]
Worlds == [Tickers -> Outcomes]
\* a few of the worlds: every index alike, and one index apart
FewWorlds ==
    {[t \in Tickers |-> o] : o \in Outcomes}
    \cup {[AllData EXCEPT !["^DJI"] = o] : o \in Outcomes}

InitHarnessIdle ==
    /\ h_df = Unset
    /\ h_out = Unset
    /\ h_again = Unset
    /\ h_ohlc = Unset

InitScript ==
    /\ pc = "start"
    /\ sheet_i = 0
    /\ dfs = <<>>
    /\ validation_messages = <<>>
    /\ shown = <<>>
    /\ selected_stock = ""
    /\ chart_type = ""
    /\ show_indices = FALSE
    /\ index_data = None
    /\ metrics = None
    /\ fig = None

\* the page script on any small workbook, in a few worlds
Init ==
    /\ uploaded_file \in {NoFile, Corrupt} \cup Workbooks(AppTables, MaxSheets)
    /\ yf \in FewWorlds
    /\ InitScript
    /\ InitHarnessIdle

\* the page script on two workbooks, in every world
InitFetch ==
    /\ uploaded_file \in {NoFile, Corrupt} \cup
          Workbooks({Table({"Date"}, <<[Date |-> Ts(1, 0)]>>),
                     Table({"Date", "Price"},
                           <<[Date |-> Ts(1, 0), Price |-> Num(2)],
                             [Date |-> Ts(2, 0), Price |-> Num(1)]>>)}, 1)
    /\ yf \in Worlds
    /\ InitScript
    /\ InitHarnessIdle

InitIdleScript ==
    /\ uploaded_file = NoFile
    /\ yf = AllData
    /\ InitScript

InitRows ==
    /\ InitIdleScript
    /\ \E cols \in {{"Date", "Price"}, {"Date", "Price", "Volume"}} :
          \E k \in 0..MaxRows : \E rs \in [1..k -> RowCells(cols)] :
             h_df = Table(cols, rs)
    /\ h_out = Unset
    /\ h_again = Unset
    /\ h_ohlc = Unset

InitCandle ==
    /\ InitIdleScript
    /\ \E k \in 0..MaxObs : \E rs \in [1..k -> CandleCells] :
          h_df = Table({"Date", "Price"}, rs)
    /\ h_out = Unset
    /\ h_again = Unset
    /\ h_ohlc = Unset

Spec == Init /\ [][Next]_vars
SpecFetch == InitFetch /\ [][Next]_vars
SpecRows == InitRows /\ [][NextRows]_vars
SpecCandle == InitCandle /\ [][NextCandle]_vars

(***************************************************************************)
(* The claims on check_rows, under SpecRows                                *)
(***************************************************************************)
\* the three checks as the specification words them
NoNullCell(row) == \A col \in DOMAIN row.cells : row.cells[col].kind # "null"
DateParses(row) == row.cells.Date.kind \in {"ts", "datestr", "null"}
PricePositive(row) ==
    row.cells.Price.kind \in {"num", "numstr"} /\ row.cells.Price.v > 0
Passes(row) == NoNullCell(row) /\ DateParses(row) /\ PricePositive(row)

ExpectedReasons(row) ==
    (IF NoNullCell(row) THEN <<>> ELSE <<"Contains null values">>)
    \o (IF DateParses(row) THEN <<>> ELSE <<"Invalid date format">>)
    \o (IF PricePositive(row) THEN <<>> ELSE <<"Invalid price value">>)

Elems(s) == {s[k] : k \in 1..Len(s)}

\* C1: the table check_rows returns holds exactly the rows that pass the null
\* check, the date check and the price check, in their input order and with
\* their values (Date as a timestamp, Price as a number), so every Price of a
\* cleaned table is > 0; when no row passes there is no table.
C1_CleanedHoldsOnlyPassingRows ==
    h_out # Unset =>
        LET passing == SelectSeq(h_df.rows, Passes)
        IN  IF h_out.cleaned_df = None THEN passing = <<>>
            ELSE LET cleaned == h_out.cleaned_df.rows
                 IN  /\ Len(cleaned) = Len(passing)
                     /\ Len(cleaned) > 0
                     /\ \A k \in 1..Len(cleaned) :
                          /\ cleaned[k].index = passing[k].index
                          /\ cleaned[k].cells.Price.kind = "num"
                          /\ cleaned[k].cells.Price.v = passing[k].cells.Price.v
                          /\ cleaned[k].cells.Price.v > 0
                          /\ cleaned[k].cells.Date.kind = "ts"
                          /\ cleaned[k].cells.Date.v = passing[k].cells.Date.v
                          /\ cleaned[k].cells.Date.t = passing[k].cells.Date.t

\* C1 witness: a sheet whose first row fails and whose second row, with a
\* textual date and a textual price, is the cleaned table
C1_Witness ==
    /\ h_out # Unset
    /\ h_out.cleaned_df # None
    /\ Len(h_df.rows) = 2
    /\ Len(h_out.cleaned_df.rows) = 1
    /\ h_out.cleaned_df.rows[1].index = 1
    /\ h_df.rows[1].cells.Price = Num(0)
    /\ h_df.rows[2].cells.Price = NumStr(2)
    /\ h_df.rows[2].cells.Date = DateStr(1, 0)

\* C2: every rejected row is recorded, under its 1-based row number, with the
\* reasons of exactly the checks it failed, in the order null, date, price:
\* the checks do not short-circuit. A null Date or Price gives "Contains null
\* values", a coerced Price <= 0 gives "Invalid price value", whatever else
\* failed. When the sheet has a valid row the report lists each record as
\* "Row <number>: <reasons>".
C2_AllFailedChecksRecorded ==
    h_out # Unset =>
        LET n == Len(h_df.rows)
            rejected == {i \in 1..n : ~Passes(h_df.rows[i])}
            records == invalid_rows(h_df)
        IN  /\ Len(records) = Cardinality(rejected)
            /\ \A j, k \in 1..Len(records) : j < k => records[j].index < records[k].index
            /\ \A i \in rejected :
                 LET row == h_df.rows[i]
                     priced == to_numeric_coerce(row.cells.Price).value
                 IN  /\ \E k \in 1..Len(records) :
                            /\ records[k].index + 1 = i
                            /\ records[k].messages = ExpectedReasons(row)
                            /\ (isnull(row.cells.Date) \/ isnull(row.cells.Price))
                                 => "Contains null values" \in Elems(records[k].messages)
                            /\ (priced.kind = "num" /\ priced.v <= 0)
                                 => "Invalid price value" \in Elems(records[k].messages)
                     /\ h_out.cleaned_df # None
                          => Message("Row", i, ExpectedReasons(row)) \in Elems(h_out.messages)

\* C2 witness: beside a valid row, a row that fails all three checks and is
\* reported with its three reasons
C2_Witness ==
    /\ h_out # Unset
    /\ h_out.cleaned_df # None
    /\ Len(h_df.rows) = 2
    /\ h_df.rows[2].cells.Date = Str
    /\ h_df.rows[2].cells.Price = Num(0)
    /\ "Volume" \in h_df.columns
    /\ h_df.rows[2].cells.Volume = Null
    /\ Message("Row", 2, <<"Contains null values", "Invalid date format",
                           "Invalid price value">>) \in Elems(h_out.messages)

\* C3: a row whose Date is non-null and parseable and whose Price is numeric
\* and > 0 is kept in the cleaned table whatever its other columns hold.
C3_OnlyRequiredFieldsExamined ==
    h_out # Unset =>
        \A i \in 1..Len(h_df.rows) :
            LET row == h_df.rows[i]
            IN  (row.cells.Date.kind \in {"ts", "datestr"} /\ PricePositive(row))
                    => /\ h_out.cleaned_df # None
                       /\ \E k \in 1..Len(h_out.cleaned_df.rows) :
                             h_out.cleaned_df.rows[k].index = row.index

\* C9: check_rows on the cleaned table it returned gives the same rows in the
\* same order, rejects nothing and reports nothing.
C9_CheckRowsIdempotent ==
    h_again # Unset =>
        /\ h_again.cleaned_df = h_out.cleaned_df
        /\ invalid_rows(h_out.cleaned_df) = <<>>
        /\ h_again.messages = <<>>

\* C9 witness: the second run, on a table the first run cleaned of a rejected
\* row and converted from text
C9_Witness ==
    /\ h_again # Unset
    /\ h_out.messages # <<>>
    /\ Len(h_out.cleaned_df.rows) = 1
    /\ h_out.cleaned_df.rows[1].index = 1
    /\ h_df.rows[2].cells.Price = NumStr(2)
    /\ h_df.rows[2].cells.Date = DateStr(1, 0)
    /\ h_again.cleaned_df.rows[1].cells.Price = Num(2)

\* the reasons a record gives about the price
PriceReasons(messages) ==
    SelectSeq(messages, LAMBDA m : m \in {"Invalid price value", "Price is not numeric"})

\* C10: a rejected row whose Price is text that is no number gets a price
\* reason different from that of a row whose Price is a number <= 0.
C10_PriceReasonsDistinguished ==
    h_out # Unset =>
        LET records == invalid_rows(h_df)
        IN  \A j, k \in 1..Len(records) :
                LET a == h_df.rows[records[j].index + 1].cells.Price
                    b == h_df.rows[records[k].index + 1].cells.Price
                IN  (a.kind = "str" /\ b.kind \in {"num", "numstr"} /\ b.v <= 0)
                        => PriceReasons(records[j].messages)
                             # PriceReasons(records[k].messages)

(***************************************************************************)
(* The claims on prepare_candlestick_data, under SpecCandle                *)
(***************************************************************************)
\* the positions of the series' rows that fall on a day
RowsOfDay(rows, day) == {k \in 1..Len(rows) : rows[k].cells.Date.v = day}

\* the bars are one per day that has a row, in day order, labelled with the
\* day's midnight, and High and Low are the day's extreme prices
BarsPerDay(rows, bars) ==
    /\ {bars[k].index.v : k \in 1..Len(bars)} = {rows[k].cells.Date.v : k \in 1..Len(rows)}
    /\ \A j, k \in 1..Len(bars) : j < k => bars[j].index.v < bars[k].index.v
    /\ \A k \in 1..Len(bars) :
          LET of == RowsOfDay(rows, bars[k].index.v)
              b == bars[k].cells
          IN  /\ bars[k].index = Ts(bars[k].index.v, 0)
              /\ of # {}
              /\ \E i \in of : b.High = Num(rows[i].cells.Price.v)
              /\ \E i \in of : b.Low = Num(rows[i].cells.Price.v)
              /\ \A i \in of : b.Low.v <= rows[i].cells.Price.v
                               /\ rows[i].cells.Price.v <= b.High.v
              /\ b.Low.v <= b.Open.v /\ b.Open.v <= b.High.v
              /\ b.Low.v <= b.Price.v /\ b.Price.v <= b.High.v

\* C6 as stated: one bar per day with a row and none for another day; open is
\* the price of the day's first row and close ('Price') that of its last row
\* in original row order, high the maximum and low the minimum.
C6_OpenCloseByRowOrder ==
    h_ohlc # Unset =>
        LET rows == h_out.cleaned_df.rows
            bars == h_ohlc.rows
        IN  /\ BarsPerDay(rows, bars)
            /\ \A k \in 1..Len(bars) :
                  LET of == RowsOfDay(rows, bars[k].index.v)
                      first == CHOOSE i \in of : \A j \in of : i <= j
                      last == CHOOSE i \in of : \A j \in of : j <= i
                  IN  /\ bars[k].cells.Open = Num(rows[first].cells.Price.v)
                      /\ bars[k].cells.Price = Num(rows[last].cells.Price.v)

\* C6 as amended: open is the price of the day's row with the earliest
\* timestamp and close that of the row with the latest, rows of equal
\* timestamp counting in original row order.
C6_OpenCloseByTimestamp ==
    h_ohlc # Unset =>
        LET rows == h_out.cleaned_df.rows
            bars == h_ohlc.rows
            Before(i, j) == \/ rows[i].cells.Date.t < rows[j].cells.Date.t
                            \/ (rows[i].cells.Date.t = rows[j].cells.Date.t /\ i < j)
        IN  /\ BarsPerDay(rows, bars)
            /\ \A k \in 1..Len(bars) :
                  LET of == RowsOfDay(rows, bars[k].index.v)
                      first == CHOOSE i \in of : \A j \in of \ {i} : Before(i, j)
                      last == CHOOSE i \in of : \A j \in of \ {i} : Before(j, i)
                  IN  /\ bars[k].cells.Open = Num(rows[first].cells.Price.v)
                      /\ bars[k].cells.Price = Num(rows[last].cells.Price.v)

\* C6 witness: three rows, two of day 1 with the later time of day first,
\* one of day 3, and no bar for day 2
C6_Witness ==
    /\ h_ohlc # Unset
    /\ Len(h_df.rows) = 3
    /\ h_df.rows[1].cells = [Date |-> Ts(1, 1), Price |-> Num(1)]
    /\ h_df.rows[2].cells = [Date |-> Ts(1, 0), Price |-> Num(3)]
    /\ h_df.rows[3].cells = [Date |-> Ts(3, 0), Price |-> Num(2)]
    /\ Len(h_ohlc.rows) = 2
    /\ h_ohlc.rows[1].cells = [Open |-> Num(3), High |-> Num(3), Low |-> Num(1),
                               Price |-> Num(1)]
    /\ h_ohlc.rows[2].index = Ts(3, 0)

(***************************************************************************)
(* The claims on the page script, under Spec and SpecFetch                 *)
(***************************************************************************)
HasColumns(sheet) == {"Date", "Price"} \subseteq sheet.df.columns
HasValidRow(sheet) == \E k \in 1..Len(sheet.df.rows) : Passes(sheet.df.rows[k])
Names(s) == [k \in 1..Len(s) |-> s[k].name]

\* the sheets the loop has gone through
SheetsRead ==
    IF pc = "start" \/ uploaded_file.file # "xlsx" THEN <<>>
    ELSE [k \in {j \in 1..Len(uploaded_file.sheets) : j < sheet_i} |->
            uploaded_file.sheets[k]]
LoopOver == uploaded_file.file = "xlsx" /\ pc # "start"
               /\ sheet_i > Len(uploaded_file.sheets)

\* C4: the stock list holds exactly the sheets that have both columns and a
\* valid row, in workbook order: at every turn of the loop dfs holds those of
\* the sheets read so far, the loop reads every sheet, and the stock selected
\* in the sidebar is one of them.
C4_StockListIsValidSheets ==
    /\ uploaded_file.file = "xlsx" /\ pc # "start" =>
          /\ Names(dfs) = Names(SelectSeq(SheetsRead,
                                          LAMBDA sh : HasColumns(sh) /\ HasValidRow(sh)))
          /\ pc # "sheets" => sheet_i = Len(uploaded_file.sheets) + 1
    /\ pc \in {"fetch", "metrics", "chart"} =>
          \E k \in 1..Len(uploaded_file.sheets) :
              /\ uploaded_file.sheets[k].name = selected_stock
              /\ HasColumns(uploaded_file.sheets[k])
              /\ HasValidRow(uploaded_file.sheets[k])

\* C4 witness: a workbook whose first sheet lacks a column and whose second
\* sheet is selected
C4_Witness ==
    /\ pc = "fetch"
    /\ Len(uploaded_file.sheets) = 2
    /\ ~HasColumns(uploaded_file.sheets[1])
    /\ Names(dfs) = <<uploaded_file.sheets[2].name>>
    /\ selected_stock = uploaded_file.sheets[2].name

\* C5: once the loop is over, every sheet skipped for a missing column has a
\* warning naming it on the page, and every sheet skipped for having no valid
\* row has an error naming it.
C5_SkippedSheetsSurfaced ==
    LoopOver =>
        \A k \in 1..Len(uploaded_file.sheets) :
            LET sheet == uploaded_file.sheets[k]
            IN  /\ ~HasColumns(sheet) =>
                      \E m \in 1..Len(shown) :
                          shown[m].kind = "warning" /\ shown[m].arg = sheet.name
                /\ (HasColumns(sheet) /\ ~HasValidRow(sheet)) =>
                      \E m \in 1..Len(shown) :
                          shown[m].kind = "error" /\ shown[m].arg = sheet.name

\* C7: when the metrics are computed the selected table has a row and its
\* first price is > 0, so the division is by a non-zero number; the metrics
\* are those of the cleaned rows: the last price, the last price minus the
\* first, and that difference over the first price times 100.
C7_MetricsFromCleanedSeries ==
    /\ pc = "metrics" =>
          LET rows == Lookup(dfs, selected_stock).rows
          IN  Len(rows) > 0 /\ rows[1].cells.Price.v > 0
    /\ metrics # None =>
          LET rows == Lookup(dfs, selected_stock).rows
              sheet == CHOOSE sh \in Elems(uploaded_file.sheets) : sh.name = selected_stock
              passing == SelectSeq(sheet.df.rows, Passes)
              first == passing[1].cells.Price.v
              last == passing[Len(passing)].cells.Price.v
          IN  /\ Len(rows) = Len(passing)
              /\ first > 0
              /\ metrics.current_price = last
              /\ metrics.price_change = last - first
              /\ metrics.percent_change.den # 0
              /\ metrics.percent_change.num * first
                    = (last - first) * 100 * metrics.percent_change.den

\* C7 witness: the metrics of a sheet whose day 1 has two rows, so that the
\* first close of the OHLC bars is not the first price
C7_Witness ==
    /\ pc = "chart"
    /\ metrics = [current_price |-> 1, price_change |-> -1,
                  percent_change |-> [num |-> -100, den |-> 2]]
    /\ Len(Lookup(dfs, selected_stock).rows) = 3

FetchedNames == IF index_data = None THEN <<>> ELSE Names(index_data.items)
PastFetch == pc \in {"metrics", "chart"} \/ (pc = "done" /\ dfs # <<>>)
Rendered ==
    /\ metrics # None
    /\ fig # None
    /\ fig.name = selected_stock
    /\ \E m \in 1..Len(shown) : shown[m].kind = "plotly_chart"
    /\ \A m \in 1..Len(shown) : shown[m].kind # "error"

\* C8 as stated: whichever indices raise, every other index is returned and
\* the raising ones are absent; fetch_index_data does not raise and the
\* metrics and the chart are rendered.
C8_EveryOtherIndexReturned ==
    /\ (PastFetch /\ show_indices) =>
          FetchedNames = Names(SelectSeq(MARKET_INDICES,
                                         LAMBDA ix : yf[ix.ticker] # "raise"))
    /\ (pc = "done" /\ dfs # <<>>) => Rendered

\* C8 as amended: whichever indices raise, every other index is fetched and
\* is returned when its download is not empty, in the order of
\* MARKET_INDICES; the raising ones are absent and each has its warning;
\* fetch_index_data does not raise and the metrics and the chart are rendered.
C8_FetchFailuresIsolated ==
    /\ (PastFetch /\ show_indices) =>
          /\ index_data # None
          /\ FetchedNames = Names(SelectSeq(MARKET_INDICES,
                                            LAMBDA ix : yf[ix.ticker] = "data"))
          /\ \A k \in 1..Len(MARKET_INDICES) :
                yf[MARKET_INDICES[k].ticker] = "raise" <=>
                    \E m \in 1..Len(shown) :
                        shown[m].kind = "warning" /\ shown[m].arg = MARKET_INDICES[k].name
    /\ (pc = "done" /\ dfs # <<>>) => Rendered /\ fig.indices = FetchedNames

\* C8 witness: the page rendered with the first index raising, the second
\* empty and the others fetched
C8_Witness ==
    /\ pc = "done"
    /\ show_indices
    /\ yf["^IXIC"] = "raise"
    /\ yf["^DJI"] = "empty"
    /\ yf["000001.SS"] = "raise"
    /\ FetchedNames = <<"S&P 500", "Russell 2000", "FTSE 100">>
    /\ Rendered

====
